---- MODULE Spec2Model ----
(***************************************************************************)
(* Model of extensions/commands/cci/cmd_bump_detection.py: the structural  *)
(* YAML diff (recursive_yaml_diff) and the gate pipeline of                *)
(* detect_bump_version, run over a repository with two revisions.          *)
(***************************************************************************)
EXTENDS Integers, Sequences, FiniteSets, TLC

(***************************************************************************)
(* YAML values as Python objects: every value carries its Python type.     *)
(*   str   v is the string                                                 *)
(*   list  v is a sequence of values                                       *)
(*   dict  v is a function from keys (strings) to values                   *)
(*   int, float, bool   v is the numeric value (True is 1, False is 0)     *)
(***************************************************************************)
Str(s) == [t |-> "str", v |-> s]

Lst(q) == [t |-> "list", v |-> q]

Map(f) == [t |-> "dict", v |-> f]

EmptyDict == [key \in {} |-> Str("")]

IsNumber(a) == a.t \in {"int", "float", "bool"}

(* Python's == on loaded YAML values, as used by `yaml_old[key] != yaml_new[key]`. *)
RECURSIVE PyEq(_, _)
PyEq(a, b) ==
    IF IsNumber(a) /\ IsNumber(b) THEN a.v = b.v
    ELSE IF a.t # b.t THEN FALSE
    ELSE IF a.t = "str" THEN a.v = b.v
    ELSE IF a.t = "list"
         THEN /\ Len(a.v) = Len(b.v)
              /\ \A i \in 1..Len(a.v) : PyEq(a.v[i], b.v[i])
    ELSE /\ DOMAIN a.v = DOMAIN b.v
         /\ \A key \in DOMAIN a.v : PyEq(a.v[key], b.v[key])

(* recursive_yaml_diff: the change tree is itself an untyped nested dict. *)
RECURSIVE recursive_yaml_diff(_, _)
recursive_yaml_diff(yaml_old, yaml_new) ==
    LET keys == DOMAIN yaml_old \cup DOMAIN yaml_new
        differing == {key \in keys :
                        \/ key \notin DOMAIN yaml_old
                        \/ key \notin DOMAIN yaml_new
                        \/ ~PyEq(yaml_old[key], yaml_new[key])}
    IN  [key \in differing |->
            IF key \notin DOMAIN yaml_old
            THEN Map("added" :> yaml_new[key])
            ELSE IF key \notin DOMAIN yaml_new
            THEN Map("removed" :> yaml_old[key])
            ELSE IF yaml_old[key].t = "dict" /\ yaml_new[key].t = "dict"
            THEN Map(recursive_yaml_diff(yaml_old[key].v, yaml_new[key].v))
            ELSE Map("modified" :> Map("old" :> yaml_old[key] @@ "new" :> yaml_new[key]))]

(***************************************************************************)
(* Paths are sequences of characters: os.path.commonprefix compares        *)
(* character by character.                                                 *)
(***************************************************************************)
SEP == <<"/">>

FOO == <<"f", "o", "o">>

FOOBAR == <<"f", "o", "o", "b", "a", "r">>

BAR == <<"b", "a", "r">>

ALL == <<"a", "l", "l">>

CMAKE == <<"c", "m", "a", "k", "e">>

CONFIG_YML == <<"c", "o", "n", "f", "i", "g", ".", "y", "m", "l">>

CONANDATA_YML == <<"c", "o", "n", "a", "n", "d", "a", "t", "a", ".", "y", "m", "l">>

CONANFILE_PY == <<"c", "o", "n", "a", "n", "f", "i", "l", "e", ".", "p", "y">>

(* os.path.join of a directory and a name; the empty directory is "here". *)
PathJoin(dir, name) == IF dir = <<>> THEN name ELSE dir \o SEP \o name

(* The files of the working tree, by their path from the repository root. *)
TreeFiles ==
    { PathJoin(FOO, CONFIG_YML),
      PathJoin(PathJoin(FOO, ALL), CONANDATA_YML),
      PathJoin(PathJoin(FOO, CMAKE), CONANDATA_YML),
      PathJoin(FOO, CONANDATA_YML),
      PathJoin(PathJoin(FOOBAR, ALL), CONANDATA_YML),
      PathJoin(PathJoin(FOO, ALL), CONANFILE_PY),
      PathJoin(BAR, CONANFILE_PY) }

(* The working directories the command is run from: the repository root, or a recipe folder. *)
WorkDirs == { <<>>, FOO }

(* Absolute path of the repository root. *)
RepoRoot == <<"/", "r">>

IsPrefix(p, q) == Len(p) <= Len(q) /\ SubSeq(q, 1, Len(p)) = p

(* Whether repository path p lies in directory dir (the root holds everything). *)
Under(dir, p) == dir = <<>> \/ IsPrefix(dir \o SEP, p)

(* git diff --name-only [--relative]: with --relative, only the files under the
   working directory, named from it; without, every changed file, named from the root. *)
git_diff_filenames(changedFiles, wd, relative) ==
    IF relative
    THEN { IF wd = <<>> THEN p ELSE SubSeq(p, Len(wd) + 2, Len(p)) :
             p \in {q \in changedFiles : Under(wd, q)} }
    ELSE changedFiles

(* os.path.abspath of a path given from the working directory. *)
abspath(wd, p) == PathJoin(RepoRoot, PathJoin(wd, p))

(* os.path.commonprefix of two strings: their longest common leading characters. *)
commonprefix(p, q) ==
    LET same == {n \in 0..Len(p) : n <= Len(q) /\ SubSeq(p, 1, n) = SubSeq(q, 1, n)}
        n == CHOOSE m \in same : \A k \in same : k <= m
    IN  SubSeq(p, 1, n)

(* os.path.relpath (then resolved again by os.path.isdir from the same working
   directory): the path normalised, that is without a trailing separator. *)
relpath(p) ==
    IF Len(p) > 1 /\ p[Len(p)] = "/" THEN SubSeq(p, 1, Len(p) - 1) ELSE p

(* The directories of the working tree, as absolute paths. *)
Directories ==
    UNION { LET a == abspath(<<>>, f)
            IN  {SubSeq(a, 1, i - 1) : i \in {j \in 2..Len(a) : a[j] = "/"}} :
            f \in TreeFiles }

isdir(p) == p \in Directories

(* os.path.basename: what follows the last separator. *)
basename(p) ==
    LET seps == {i \in 1..Len(p) : p[i] = "/"}
        last == IF seps = {} THEN 0 ELSE CHOOSE i \in seps : \A j \in seps : j <= i
    IN  SubSeq(p, last + 1, Len(p))


(***************************************************************************)
(* Version strings.  The pattern is matched on the characters of the key.  *)
(***************************************************************************)
(* The characters of each version string of the model. *)
Chars(version) ==
    CASE version = "0.1.0" -> <<"0", ".", "1", ".", "0">>
      [] version = "0.1.1" -> <<"0", ".", "1", ".", "1">>
      [] version = "0.2" -> <<"0", ".", "2">>
      [] version = "10.21" -> <<"1", "0", ".", "2", "1">>
      [] version = "0.1.3.4" -> <<"0", ".", "1", ".", "3", ".", "4">>
      [] version = "cci.20231207" ->
            <<"c", "c", "i", ".", "2", "0", "2", "3", "1", "2", "0", "7">>
      [] version = "v0.1.2" -> <<"v", "0", ".", "1", ".", "2">>
      [] version = "0.1.1-rc" -> <<"0", ".", "1", ".", "1", "-", "r", "c">>
      [] version = "0.1.1\n" -> <<"0", ".", "1", ".", "1", "\n">>
      [] version = "0.1." -> <<"0", ".", "1", ".">>
      [] version = "1" -> <<"1">>

IsDigit(c) == c \in {"0", "1", "2", "3", "4", "5", "6", "7", "8", "9"}

(* \d+ from position i: the position after the digits (i itself when there is none). *)
RECURSIVE SkipDigits(_, _)
SkipDigits(s, i) ==
    IF i <= Len(s) /\ IsDigit(s[i]) THEN SkipDigits(s, i + 1) ELSE i

(* $ of Python's re: the end of the string, or just before a newline that ends it. *)
AtDollar(s, i) == i = Len(s) + 1 \/ (i = Len(s) /\ s[i] = "\n")

(* semver_pattern.match(version) for ^(\d+)\.(\d+)(?:\.(\d+))?$ *)
semver_pattern_match(version) ==
    LET s == Chars(version)
        a == SkipDigits(s, 1)
        b == SkipDigits(s, a + 1)
        c == SkipDigits(s, b + 1)
    IN  /\ a > 1
        /\ a <= Len(s) /\ s[a] = "."
        /\ b > a + 1
        /\ \/ AtDollar(s, b)
           \/ /\ b <= Len(s) /\ s[b] = "."
              /\ c > b + 1
              /\ AtDollar(s, c)

(***************************************************************************)
(* URLs: urllib.parse.urlparse, by the two attributes the code reads.      *)
(* hostname is the network location in lower case, without port.           *)
(***************************************************************************)
urlparse(url) ==
    CASE url = "http://foobar.com/0.1.0.tgz" -> [scheme |-> "http", hostname |-> "foobar.com"]
      [] url = "http://foobar.com/0.1.1.tgz" -> [scheme |-> "http", hostname |-> "foobar.com"]
      [] url = "http://FooBar.com:80/0.1.1.tgz" -> [scheme |-> "http", hostname |-> "foobar.com"]
      [] url = "https://foobar.com/0.1.1.tgz" -> [scheme |-> "https", hostname |-> "foobar.com"]
      [] url = "http://acme.com/0.1.1.tgz" -> [scheme |-> "http", hostname |-> "acme.com"]
      [] url = "https://mirror.com/0.1.0.tgz" -> [scheme |-> "https", hostname |-> "mirror.com"]
      [] url = "https://mirror.com/0.1.1.tgz" -> [scheme |-> "https", hostname |-> "mirror.com"]


(***************************************************************************)
(* Python operations the gates apply to the (untyped) change tree.         *)
(***************************************************************************)
(* key in value *)
PyIn(key, value) ==
    CASE value.t = "dict" -> key \in DOMAIN value.v
      [] value.t = "list" -> \E i \in 1..Len(value.v) : PyEq(value.v[i], Str(key))

(* len(value) *)
PyLen(value) ==
    CASE value.t = "dict" -> Cardinality(DOMAIN value.v)
      [] value.t = "list" -> Len(value.v)

(* value.keys() *)
PyKeys(value) == DOMAIN value.v

(* The orders in which a dict built while iterating a set may list the keys:
   the iteration order of a set of strings is not fixed from run to run. *)
Orders(S) == {q \in [1..Cardinality(S) -> S] : \A i, j \in 1..Cardinality(S) : q[i] = q[j] => i = j}

(***************************************************************************)
(* The snapshots: the contents of config.yml and conandata.yml at the old  *)
(* and at the new revision, as loaded by yaml.safe_load.                   *)
(***************************************************************************)
(* How many entries of a collection may differ between the revisions. *)
MaxEdits == 2

(* How many files may differ between the revisions. *)
MaxChanged == 3

(* The keys on which two dicts differ. *)
Edited(old, new) ==
    {key \in DOMAIN old \cup DOMAIN new :
        \/ key \notin DOMAIN old
        \/ key \notin DOMAIN new
        \/ old[key] # new[key]}

(* The dicts with keys among `keys` and values among `values` that differ from
   `old` on at most MaxEdits keys: the keys in `gone` are removed, those of
   `edit` are added or given another value. *)
Near(old, keys, values) ==
    UNION { { [key \in (DOMAIN old \ gone) \cup DOMAIN edit |->
                  IF key \in DOMAIN edit THEN edit[key] ELSE old[key]] :
              edit \in {e \in [touched \ gone -> values] :
                          \A key \in DOMAIN e \cap DOMAIN old : e[key] # old[key]} } :
            <<touched, gone>> \in
                {tg \in (SUBSET keys) \X (SUBSET DOMAIN old) :
                    tg[2] \subseteq tg[1] /\ Cardinality(tg[1]) <= MaxEdits} }

(* config.yml: versions: {version: {folder: ...}} *)
Folder(name) == Map("folder" :> Str(name))

ConfigEntries ==
    { Folder("all"),
      Folder("new"),
      Map("folder" :> Str("all") @@ "extra" :> Str("all")),
      Map("extra" :> Str("all")),
      Map("added" :> Folder("all")),
      Map("added" :> Folder("new")) }

ConfigVersions == {"0.1.0", "0.1.1", "0.2", "0.1.1-rc", "0.1.1\n"}

(* The order in which a config.yml of the model lists its versions, top to bottom:
   yaml.safe_load keeps it in the dict it returns. *)
VersionsListed == <<"0.1.0", "0.1.1", "0.2", "0.1.1-rc", "0.1.1\n">>

(* The root keys beside the collection are given as a dict. *)
ConfigYml(versions, root) ==
    [key \in {"versions"} \cup DOMAIN root |->
        IF key = "versions" THEN Map(versions) ELSE root[key]]

(* conandata.yml: sources: {version: {url: ..., sha256: ...}}, patches: {...} *)
Source(url, sha256) == Map("url" :> url @@ "sha256" :> sha256)

OldSource == Source(Str("http://foobar.com/0.1.0.tgz"), Str("507e"))

OldSourceMirror ==
    Source(Lst(<<Str("http://foobar.com/0.1.0.tgz"), Str("https://mirror.com/0.1.0.tgz")>>),
           Str("507e"))

NewSource == Source(Str("http://foobar.com/0.1.1.tgz"), Str("f047"))

SourceEntries ==
    { OldSource, OldSourceMirror, NewSource,
      Source(Str("http://foobar.com/0.1.0.tgz"), Str("f047")),
      Source(Str("https://foobar.com/0.1.1.tgz"), Str("f047")),
      Source(Str("http://acme.com/0.1.1.tgz"), Str("f047")),
      Source(Str("http://FooBar.com:80/0.1.1.tgz"), Str("f047")),
      Source(Lst(<<Str("http://foobar.com/0.1.1.tgz"), Str("https://mirror.com/0.1.1.tgz")>>),
             Str("f047")),
      Source(Lst(<<Str("http://foobar.com/0.1.1.tgz"), Str("http://acme.com/0.1.1.tgz")>>),
             Str("f047")),
      Source(Str("http://foobar.com/0.1.1.tgz"), Lst(<<Str("f047"), Str("9fc5")>>)),
      Map("url" :> Str("http://foobar.com/0.1.1.tgz") @@ "sha1" :> Str("f047")),
      Map("url" :> Str("http://foobar.com/0.1.1.tgz") @@ "sha256" :> Str("f047")
          @@ "sha1" :> Str("f047")),
      Map("url" :> Str("http://foobar.com/0.1.1.tgz")),
      Map("sha256" :> Str("f047")),
      Map("added" :> OldSource),
      Map("added" :> NewSource) }

SourceVersions == {"0.1.0", "0.1.1", "0.2"}

Patch == Lst(<<Map("patch_file" :> Str("patches/0001-fpic-honor.patch"))>>)

(* The patches mapping at the old and at the new revision; an empty dict: no such key. *)
PatchesPairs ==
    { <<EmptyDict, EmptyDict>>,
      <<EmptyDict, "patches" :> Map("0.1.1" :> Patch)>>,
      <<"patches" :> Map("0.1.0" :> Patch), "patches" :> Map("0.1.0" :> Patch)>>,
      <<"patches" :> Map("0.1.0" :> Patch),
        "patches" :> Map("0.1.0" :> Patch @@ "0.1.1" :> Patch)>> }

ConandataYml(sources, patches) ==
    [key \in {"sources"} \cup DOMAIN patches |->
        IF key = "sources" THEN Map(sources) ELSE patches[key]]

(* The entry a well-formed file has for a version. *)
GoodConfig(versions) == [version \in versions |-> Folder("all")]

GoodSources(versions) ==
    [version \in versions |-> IF version = "0.1.0" THEN OldSource ELSE NewSource]

(* get_config_yml_versions / get_conandata_yml_versions *)
VersionsOf(yml, collection) ==
    IF collection \in DOMAIN yml /\ yml[collection].t = "dict"
    THEN DOMAIN yml[collection].v
    ELSE {}


(***************************************************************************)
(* One run of detect_bump_version(commit_hash_old, commit_hash_new).       *)
(***************************************************************************)
VARIABLES
    workdir,                  \* the working directory, from the repository root
    changed,                  \* the files that differ between the two revisions
    config,                   \* config.yml at the old and at the new revision
    conandata,                \* conandata.yml at the old and at the new revision
    faults,                   \* the calls of git that fail, the contents that do not parse
    pc,                       \* the statement the run is at
    files,
    config_list,
    conandata_list,
    config_compare_result,
    added_versions,
    conandata_compare_result,
    pending,                  \* the entries the loop over the sources has yet to visit
    result,                   \* the returned list
    warnings,                 \* what output.warning was called with
    reads                     \* the calls of get_file_content_by_commit, in order

vars == <<workdir, changed, config, conandata, faults, pc, files, config_list, conandata_list,
          config_compare_result, added_versions, conandata_compare_result, pending,
          result, warnings, reads>>

repo == <<workdir, changed, config, conandata, faults>>

(***************************************************************************)
(* The repositories the command is run on.                                 *)
(***************************************************************************)
ConfigPath == PathJoin(FOO, CONFIG_YML)

ConandataPath == PathJoin(PathJoin(FOO, ALL), CONANDATA_YML)

Repository(wd, ch, cfgOld, cfgNew, dataOld, dataNew) ==
    /\ workdir = wd
    /\ changed = ch
    /\ config = [old |-> cfgOld, new |-> cfgNew]
    /\ conandata = [old |-> dataOld, new |-> dataNew]

(* Root-level keys of config.yml beside versions, at the old and at the new revision. *)
RootPairs ==
    { <<EmptyDict, EmptyDict>>,
      <<EmptyDict, "extra" :> Str("x")>>,
      <<"extra" :> Str("x"), EmptyDict>> }

ConfigOlds == { GoodConfig({"0.1.0"}), "0.1.0" :> Map("added" :> Folder("all")) }

SourceOlds ==
    { "0.1.0" :> OldSource, "0.1.0" :> OldSourceMirror, "0.1.0" :> Map("added" :> OldSource) }

(* config.yml varies; conandata.yml lists the same versions, well formed. *)
VersionsFocus ==
    \E o \in ConfigOlds : \E n \in Near(o, ConfigVersions, ConfigEntries) : \E rp \in RootPairs :
        Repository(<<>>, {ConfigPath, ConandataPath},
                   ConfigYml(o, rp[1]), ConfigYml(n, rp[2]),
                   ConandataYml(GoodSources(DOMAIN o), EmptyDict),
                   ConandataYml(GoodSources(DOMAIN n), EmptyDict))

(* conandata.yml varies; config.yml lists the same versions, well formed. *)
SourcesFocus ==
    \E o \in SourceOlds : \E n \in Near(o, SourceVersions, SourceEntries) : \E pp \in PatchesPairs :
        Repository(<<>>, {ConfigPath, ConandataPath},
                   ConfigYml(GoodConfig(DOMAIN o), EmptyDict),
                   ConfigYml(GoodConfig(DOMAIN n), EmptyDict),
                   ConandataYml(o, pp[1]), ConandataYml(n, pp[2]))

(* The versions listed by each file at each revision vary; every entry is well formed. *)
KeysFocus ==
    \E co, cn, so, sn \in SUBSET SourceVersions :
        Repository(<<>>, {ConfigPath, ConandataPath},
                   ConfigYml(GoodConfig(co), EmptyDict), ConfigYml(GoodConfig(cn), EmptyDict),
                   ConandataYml(GoodSources(so), EmptyDict),
                   ConandataYml(GoodSources(sn), EmptyDict))

(* The versions a file of the changed set lists at the new revision: it gains 0.1.1. *)
Bumped(ch, name) ==
    IF \E f \in ch : basename(f) = name THEN {"0.1.0", "0.1.1"} ELSE {"0.1.0"}

(* The changed files and the working directory vary. *)
ScopeFocus ==
    \E wd \in WorkDirs : \E ch \in {c \in SUBSET TreeFiles : Cardinality(c) <= MaxChanged} :
        Repository(wd, ch,
                   ConfigYml(GoodConfig({"0.1.0"}), EmptyDict),
                   ConfigYml(GoodConfig(Bumped(ch, CONFIG_YML)), EmptyDict),
                   ConandataYml(GoodSources({"0.1.0"}), EmptyDict),
                   ConandataYml(GoodSources(Bumped(ch, CONANDATA_YML)), EmptyDict))

(* A step of the run that may fail: a call of git (rev-parse, diff, show) or the
   parsing of what git show returned (load), on a revision or a listing, of a file. *)
Step(kind, which, path) == <<kind, which, path>>

(* The steps that fail for reasons of the repository: a revision that does not
   resolve, a listing git cannot make, a file missing at a revision, a content
   that is no YAML. *)
AllFaults ==
    {Step("rev-parse", commit, <<>>) : commit \in {"old", "new"}}
        \cup {Step("diff", listing, <<>>) : listing \in {"relative", "full"}}
        \cup {Step(kind, commit, path) : kind \in {"show", "load"}, commit \in {"old", "new"},
                                         path \in {ConfigPath, ConandataPath}}

(* At most this many steps fail in a run. *)
MaxFaults == 1

(* A bump of one version, alone or with an extra root key in config.yml or with a
   third changed file; some steps fail. *)
FaultsFocus ==
    \E fs \in {f \in SUBSET AllFaults : Cardinality(f) <= MaxFaults} :
    \E extra \in {EmptyDict, "extra" :> Str("x")} :
    \E third \in SUBSET {PathJoin(PathJoin(FOO, ALL), CONANFILE_PY)} :
        /\ Repository(<<>>, {ConfigPath, ConandataPath} \cup third,
                      ConfigYml(GoodConfig({"0.1.0"}), EmptyDict),
                      ConfigYml(GoodConfig({"0.1.0", "0.1.1"}), extra),
                      ConandataYml(GoodSources({"0.1.0"}), EmptyDict),
                      ConandataYml(GoodSources({"0.1.0", "0.1.1"}), EmptyDict))
        /\ faults = fs

Init ==
    /\ \/ /\ \/ VersionsFocus
             \/ SourcesFocus
             \/ KeysFocus
             \/ ScopeFocus
          /\ faults = {}
       \/ FaultsFocus
    /\ pc = "bump_detection"
    /\ files = {}
    /\ config_list = {}
    /\ conandata_list = {}
    /\ config_compare_result = EmptyDict
    /\ added_versions = <<>>
    /\ conandata_compare_result = EmptyDict
    /\ pending = <<>>
    /\ result = <<>>
    /\ warnings = <<>>
    /\ reads = <<>>

(* return value *)
Return(value) ==
    /\ pc' = "returned"
    /\ result' = value

Goto(label) ==
    /\ pc' = label
    /\ UNCHANGED result

(* raise ConanException: the run ends and returns nothing. *)
Raise ==
    /\ pc' = "raised"
    /\ UNCHANGED result

(* get_file_content_by_commit then load_yaml_content, as two steps. *)
Load(commit, path) == <<Step("show", commit, path), Step("load", commit, path)>>

(* The steps of compare_yaml_files: both contents are fetched, then both parsed. *)
CompareSteps(path) ==
    <<Step("show", "old", path), Step("show", "new", path),
      Step("load", "old", path), Step("load", "new", path)>>

(* Whether one of the steps fails, and the steps taken: all of them, or those up
   to the first that fails. *)
(* Only a failing call of git counts; a content that does not parse is let through. *)
FailsAtGit(steps) == \E i \in 1..Len(steps) : steps[i] \in faults /\ steps[i][1] # "load"

Fails(steps) == \E i \in 1..Len(steps) : steps[i] \in faults

Taken(steps) ==
    IF Fails(steps)
    THEN SubSeq(steps, 1, CHOOSE i \in 1..Len(steps) :
                              /\ steps[i] \in faults
                              /\ \A j \in 1..(i - 1) : steps[j] \notin faults)
    ELSE steps

(* The calls of get_file_content_by_commit among the steps taken. *)
Shown(steps) ==
    LET RECURSIVE shown(_)
        shown(q) == IF q = <<>> THEN <<>>
                    ELSE IF Head(q)[1] = "show"
                         THEN <<<<Head(q)[2], Head(q)[3]>>>> \o shown(Tail(q))
                         ELSE shown(Tail(q))
    IN  shown(Taken(steps))

(* get_file_content_by_commit then load_yaml_content: the file at a revision. *)
FileAt(commit, path) ==
    IF basename(path) = CONFIG_YML THEN config[commit] ELSE conandata[commit]

(* compare_yaml_files *)
compare_yaml_files(path) == recursive_yaml_diff(FileAt("old", path), FileAt("new", path))

(* The only element of a list of length one. *)
First(list) == CHOOSE f \in list : TRUE


(* Lines 370-379: the command resolves the two revisions, then runs the detection;
   what the detection returns is the bump_version of the mapping the command returns. *)
BumpDetection ==
    /\ pc = "bump_detection"
    /\ IF Fails(<<Step("rev-parse", "old", <<>>), Step("rev-parse", "new", <<>>)>>)
       THEN Raise
       ELSE Goto("git_diff_relative")
    /\ UNCHANGED <<repo, files, config_list, conandata_list, config_compare_result,
                   added_versions, conandata_compare_result, pending, warnings, reads>>

(* Lines 238-241: the files changed under the working directory must be two. *)
GitDiffRelative ==
    /\ pc = "git_diff_relative"
    /\ IF Fails(<<Step("diff", "relative", <<>>)>>)
       THEN /\ Raise
            /\ UNCHANGED files
       ELSE /\ files' = git_diff_filenames(changed, workdir, TRUE)
            /\ IF Cardinality(files') # 2 THEN Return(<<>>) ELSE Goto("common_prefix")
    /\ UNCHANGED <<repo, config_list, conandata_list, config_compare_result, added_versions,
                   conandata_compare_result, pending, warnings, reads>>

(* Lines 243-244: the common prefix of the two absolute paths, made relative. *)
common_prefix(list) ==
    LET p == CHOOSE x \in list : TRUE
        q == CHOOSE y \in list \ {p} : TRUE
    IN  relpath(commonprefix(abspath(workdir, p), abspath(workdir, q)))

(* Lines 243-247: the common prefix must be a directory. *)
CommonPrefix ==
    /\ pc = "common_prefix"
    /\ IF ~isdir(common_prefix(files)) THEN Return(<<>>) ELSE Goto("git_diff_files")
    /\ UNCHANGED <<repo, files, config_list, conandata_list, config_compare_result,
                   added_versions, conandata_compare_result, pending, warnings, reads>>

(* Lines 249-258: one config.yml and one conandata.yml among all changed files. *)
GitDiffFiles ==
    /\ pc = "git_diff_files"
    /\ IF Fails(<<Step("diff", "full", <<>>)>>)
       THEN /\ Raise
            /\ UNCHANGED <<files, config_list, conandata_list>>
       ELSE /\ files' = git_diff_filenames(changed, workdir, FALSE)
            /\ config_list' = {it \in files' : basename(it) = CONFIG_YML}
            /\ IF Cardinality(config_list') # 1
               THEN /\ Return(<<>>)
                    /\ UNCHANGED conandata_list
               ELSE /\ conandata_list' = {it \in files' : basename(it) = CONANDATA_YML}
                    /\ IF Cardinality(conandata_list') # 1
                       THEN Return(<<>>)
                       ELSE Goto("compare_config")
    /\ UNCHANGED <<repo, config_compare_result, added_versions, conandata_compare_result,
                   pending, warnings, reads>>

(* Line 263: only versions may have changed in config.yml. *)
(* The versions are among the changed root keys, whatever the other ones. *)
VersionsAmongChanged(compare_result) == "versions" \in DOMAIN compare_result

OnlyVersionsChanged(compare_result) == DOMAIN compare_result = {"versions"}

(* Lines 262-265 *)
CompareConfig ==
    /\ pc = "compare_config"
    /\ reads' = reads \o Shown(CompareSteps(First(config_list)))
    /\ IF Fails(CompareSteps(First(config_list)))
       THEN /\ Raise
            /\ UNCHANGED config_compare_result
       ELSE /\ config_compare_result' = compare_yaml_files(First(config_list))
            /\ IF ~OnlyVersionsChanged(config_compare_result')
               THEN Return(<<>>)
               ELSE Goto("versions_added")
    /\ UNCHANGED <<repo, files, config_list, conandata_list, added_versions,
                   conandata_compare_result, pending, warnings>>

(* Line 268: the condition under which an entry of the versions diff is refused. *)
VersionRefused(version_info) ==
    \/ ~PyIn("added", version_info)
    \/ PyLen(version_info.v["added"]) # 1
    \/ Cardinality(PyKeys(version_info)) # 1
    \/ ~PyIn("folder", version_info.v["added"])

(* Lines 267-270 *)
VersionsAdded ==
    /\ pc = "versions_added"
    /\ IF \E key \in DOMAIN config_compare_result["versions"].v :
             VersionRefused(config_compare_result["versions"].v[key])
       THEN Return(<<>>)
       ELSE Goto("semver")
    /\ UNCHANGED <<repo, files, config_list, conandata_list, config_compare_result,
                   added_versions, conandata_compare_result, pending, warnings, reads>>

(* The positions of the versions the pattern does not match. *)
NotSemver(versions) == {i \in 1..Len(versions) : ~semver_pattern_match(versions[i])}

(* The gate on the syntax of the versions, were it to warn and let the run go on. *)
SemverWarnsAndGoesOn ==
    /\ pc = "semver"
    /\ \E order \in Orders(DOMAIN config_compare_result["versions"].v) :
          /\ added_versions' = order
          /\ warnings' = IF NotSemver(order) # {}
                         THEN Append(warnings, order[CHOOSE i \in NotSemver(order) : TRUE])
                         ELSE warnings
          /\ Goto("same_versions")
    /\ UNCHANGED <<repo, files, config_list, conandata_list, config_compare_result,
                   conandata_compare_result, pending, reads>>

(* Lines 272-278: the keys of the versions diff, in the order of the dict. *)
Semver ==
    /\ pc = "semver"
    /\ \E order \in Orders(DOMAIN config_compare_result["versions"].v) :
          /\ added_versions' = order
          /\ IF NotSemver(order) # {}
             THEN /\ warnings' = Append(warnings,
                        order[CHOOSE i \in NotSemver(order) : \A j \in NotSemver(order) : i <= j])
                  /\ Return(<<>>)
             ELSE /\ UNCHANGED warnings
                  /\ Goto("same_versions")
    /\ UNCHANGED <<repo, files, config_list, conandata_list, config_compare_result,
                   conandata_compare_result, pending, reads>>

(* Line 282: both files list the same versions at the new revision. *)
(* Every version of config.yml is in conandata.yml, which may list more. *)
VersionsIncluded(config_yml_versions, conandata_yaml_versions) ==
    config_yml_versions \subseteq conandata_yaml_versions

SameVersions(config_yml_versions, conandata_yaml_versions) ==
    config_yml_versions = conandata_yaml_versions

(* Lines 280-284 *)
CheckSameVersions ==
    /\ pc = "same_versions"
    /\ LET steps == Load("new", First(config_list)) \o Load("new", First(conandata_list))
       IN  /\ reads' = reads \o Shown(steps)
           /\ IF Fails(steps)
              THEN Raise
              ELSE IF ~SameVersions(VersionsOf(FileAt("new", First(config_list)), "versions"),
                                    VersionsOf(FileAt("new", First(conandata_list)), "sources"))
                   THEN Return(<<>>)
                   ELSE Goto("compare_conandata")
    /\ UNCHANGED <<repo, files, config_list, conandata_list, config_compare_result,
                   added_versions, conandata_compare_result, pending, warnings>>

(* Line 289: only sources may have changed in conandata.yml. *)
(* The sources are among the changed root keys, whatever the other ones. *)
SourcesAmongChanged(compare_result) == "sources" \in DOMAIN compare_result

OnlySourcesChanged(compare_result) == DOMAIN compare_result = {"sources"}

(* Lines 288-291; the loop of line 293 then visits the entries in the order of the dict. *)
CompareConandata ==
    /\ pc = "compare_conandata"
    /\ reads' = reads \o Shown(CompareSteps(First(conandata_list)))
    /\ IF Fails(CompareSteps(First(conandata_list)))
       THEN /\ Raise
            /\ UNCHANGED <<conandata_compare_result, pending>>
       ELSE /\ conandata_compare_result' = compare_yaml_files(First(conandata_list))
            /\ IF ~OnlySourcesChanged(conandata_compare_result')
               THEN /\ Return(<<>>)
                    /\ UNCHANGED pending
               ELSE /\ pending' \in Orders(DOMAIN conandata_compare_result'["sources"].v)
                    /\ Goto("sources")
    /\ UNCHANGED <<repo, files, config_list, conandata_list, config_compare_result,
                   added_versions, warnings>>

(* Line 294: the entry is an addition and nothing else. *)
OnlyAdded(version_info) == PyKeys(version_info) = {"added"}

(* Line 298: the added entry has url and sha256 and nothing else. *)
(* The added entry has url and sha256, and maybe more. *)
UrlAndSha256AtLeast(added) == \A key \in {"url", "sha256"} : key \in PyKeys(added)

UrlAndSha256(added) ==
    /\ Cardinality(PyKeys(added)) = 2
    /\ \A key \in {"url", "sha256"} : key \in PyKeys(added)

(* Line 302: one checksum. *)
OneChecksum(added) == added.v["sha256"].t = "str"

(* get_conandata_yml_urls: the parsed urls of every version of the sources. *)
get_conandata_yml_urls(conandata_yml) ==
    IF "sources" \in DOMAIN conandata_yml /\ conandata_yml["sources"].t = "dict"
    THEN UNION { LET version_it == conandata_yml["sources"].v[version]
                 IN  IF PyIn("url", version_it) /\ version_it.v["url"].t = "str"
                     THEN {urlparse(version_it.v["url"].v)}
                     ELSE IF PyIn("url", version_it) /\ version_it.v["url"].t = "list"
                     THEN {urlparse(version_it.v["url"].v[i].v) :
                              i \in 1..Len(version_it.v["url"].v)}
                     ELSE {} :
                 version \in DOMAIN conandata_yml["sources"].v }
    ELSE {}

(* Lines 307-308: the urls of an added entry, as a list. *)
AddUrls(added) ==
    IF added.v["url"].t = "str"
    THEN {added.v["url"].v}
    ELSE {added.v["url"].v[i].v : i \in 1..Len(added.v["url"].v)}

(* Line 309: every hostname is that of an old url. *)
(* Some hostname, not every one, is that of an old url. *)
SomeHostnameKnown(add_urls, old_url_hostnames) ==
    \E url \in add_urls : urlparse(url).hostname \in {it.hostname : it \in old_url_hostnames}

HostnamesKnown(add_urls, old_url_hostnames) ==
    \A url \in add_urls : urlparse(url).hostname \in {it.hostname : it \in old_url_hostnames}

(* Line 312: every scheme is that of an old url. *)
SchemesKnown(add_urls, old_url_hostnames) ==
    \A url \in add_urls : urlparse(url).scheme \in {it.scheme : it \in old_url_hostnames}

(* Lines 294-304: the entry is refused before the old urls are read. *)
SourceRefused(version_info) ==
    \/ ~OnlyAdded(version_info)
    \/ ~UrlAndSha256(version_info.v["added"])
    \/ ~OneChecksum(version_info.v["added"])

(* The entry is refused unless each url has the scheme and the hostname of one
   and the same old url. *)
UrlsRefusedAsPairs(version_info, old_url_hostnames) ==
    \E url \in AddUrls(version_info.v["added"]) :
        ~\E it \in old_url_hostnames :
            it.hostname = urlparse(url).hostname /\ it.scheme = urlparse(url).scheme

(* Lines 306-314: the entry is refused for its urls. *)
UrlsRefused(version_info, old_url_hostnames) ==
    \/ ~HostnamesKnown(AddUrls(version_info.v["added"]), old_url_hostnames)
    \/ ~SchemesKnown(AddUrls(version_info.v["added"]), old_url_hostnames)

(* The loop over the sources diff, were it to leave out the version of a refused
   entry and go on with the others. *)
SourcesLeavingOut ==
    /\ pc = "sources"
    /\ IF pending = <<>>
       THEN /\ Return(added_versions)
            /\ UNCHANGED <<pending, reads, added_versions>>
       ELSE LET version_info == conandata_compare_result["sources"].v[Head(pending)]
                others == SelectSeq(added_versions, LAMBDA version : version # Head(pending))
            IN  /\ pending' = Tail(pending)
                /\ Goto("sources")
                /\ IF SourceRefused(version_info)
                   THEN /\ added_versions' = others
                        /\ UNCHANGED reads
                   ELSE /\ reads' = Append(reads, <<"old", First(conandata_list)>>)
                        /\ IF UrlsRefused(version_info,
                                          get_conandata_yml_urls(FileAt("old", First(conandata_list))))
                           THEN added_versions' = others
                           ELSE UNCHANGED added_versions
    /\ UNCHANGED <<repo, files, config_list, conandata_list, config_compare_result,
                   conandata_compare_result, warnings>>

(* Lines 293-316: one turn of the loop over the sources diff, or the return after it. *)
Sources ==
    /\ pc = "sources"
    /\ IF pending = <<>>
       THEN /\ Return(added_versions)
            /\ UNCHANGED <<pending, reads>>
       ELSE LET version_info == conandata_compare_result["sources"].v[Head(pending)]
            IN  IF SourceRefused(version_info)
                THEN /\ Return(<<>>)
                     /\ UNCHANGED <<pending, reads>>
                ELSE /\ reads' = reads \o Shown(Load("old", First(conandata_list)))
                     /\ IF Fails(Load("old", First(conandata_list)))
                        THEN /\ Raise
                             /\ UNCHANGED pending
                        ELSE IF UrlsRefused(version_info,
                                    get_conandata_yml_urls(FileAt("old", First(conandata_list))))
                             THEN /\ Return(<<>>)
                                  /\ UNCHANGED pending
                             ELSE /\ pending' = Tail(pending)
                                  /\ Goto("sources")
    /\ UNCHANGED <<repo, files, config_list, conandata_list, config_compare_result,
                   added_versions, conandata_compare_result, warnings>>

Next ==
    \/ BumpDetection
    \/ GitDiffRelative
    \/ CommonPrefix
    \/ GitDiffFiles
    \/ CompareConfig
    \/ VersionsAdded
    \/ Semver
    \/ CheckSameVersions
    \/ CompareConandata
    \/ Sources

Spec == Init /\ [][Next]_vars


(***************************************************************************)
(* recursive_yaml_diff alone, on mappings whose values are scalars of every *)
(* kind, lists and nested mappings.                                        *)
(***************************************************************************)
PyInt(n) == [t |-> "int", v |-> n]

PyFloat(n) == [t |-> "float", v |-> n]

PyBool(n) == [t |-> "bool", v |-> n]

(* 1, 1.0, true, "1", two lists of the same elements in two orders, two mappings. *)
DiffValues ==
    { PyInt(1), PyFloat(1), PyBool(1), Str("1"),
      Lst(<<PyInt(1), Str("1")>>), Lst(<<Str("1"), PyInt(1)>>),
      Map("k" :> PyInt(1)), Map("k" :> Str("1")) }

DiffKeys == <<"a", "b", "c">>

(* A mapping has at most this many keys. *)
MaxKeys == 2

(* The mappings given to recursive_yaml_diff: each key is absent or holds a value. *)
DiffMappings ==
    UNION { [keys -> DiffValues] : keys \in SUBSET {DiffKeys[i] : i \in 1..MaxKeys} }

DiffInit ==
    /\ \E yaml_old, yaml_new \in DiffMappings : config = [old |-> yaml_old, new |-> yaml_new]
    /\ workdir = <<>>
    /\ changed = {}
    /\ conandata = [old |-> EmptyDict, new |-> EmptyDict]
    /\ faults = {}
    /\ pc = "recursive_yaml_diff"
    /\ files = {}
    /\ config_list = {}
    /\ conandata_list = {}
    /\ config_compare_result = EmptyDict
    /\ added_versions = <<>>
    /\ conandata_compare_result = EmptyDict
    /\ pending = <<>>
    /\ result = <<>>
    /\ warnings = <<>>
    /\ reads = <<>>

(* Lines 180-207: one call of recursive_yaml_diff(yaml_old, yaml_new). *)
RecursiveYamlDiff ==
    /\ pc = "recursive_yaml_diff"
    /\ config_compare_result' = recursive_yaml_diff(config.old, config.new)
    /\ pc' = "diffed"
    /\ UNCHANGED <<repo, files, config_list, conandata_list, added_versions,
                   conandata_compare_result, pending, result, warnings, reads>>

DiffNext == RecursiveYamlDiff

DiffSpec == DiffInit /\ [][DiffNext]_vars


(***************************************************************************)
(* Properties.  They are stated on the snapshots and on the returned list, *)
(* with the change tree of the specification (Added, Removed, Modified,    *)
(* nested), not with the dicts the code builds.                            *)
(***************************************************************************)
Returned == pc = "returned"

(* The collection of a file, an empty dict when the file has none. *)
Collection(yml, name) ==
    IF name \in DOMAIN yml /\ yml[name].t = "dict" THEN yml[name].v ELSE EmptyDict

OldVersions == Collection(config.old, "versions")

NewVersions == Collection(config.new, "versions")

OldSources == Collection(conandata.old, "sources")

NewSources == Collection(conandata.new, "sources")

(* The keys of a mapping whose entry is Added, Removed, Modified or nested. *)
ChangedKeys(old, new) ==
    {key \in DOMAIN old \cup DOMAIN new :
        \/ key \notin DOMAIN old
        \/ key \notin DOMAIN new
        \/ ~PyEq(old[key], new[key])}

AddedKeys(old, new) == DOMAIN new \ DOMAIN old

(* The change tree of two mappings has a Removed or a Modified entry, at any depth. *)
RECURSIVE HasRemovedOrModified(_, _)
HasRemovedOrModified(old, new) ==
    \E key \in DOMAIN old :
        \/ key \notin DOMAIN new
        \/ /\ ~PyEq(old[key], new[key])
           /\ \/ old[key].t # "dict"
              \/ new[key].t # "dict"
              \/ HasRemovedOrModified(old[key].v, new[key].v)

(* major.minor or major.minor.patch: two or three runs of digits, between dots. *)
AllDigits(s) == Len(s) > 0 /\ \A i \in 1..Len(s) : IsDigit(s[i])

MajorMinorPatch(version) ==
    LET s == Chars(version)
        dots == {i \in 1..Len(s) : s[i] = "."}
        d1 == CHOOSE i \in dots : \A j \in dots : i <= j
        d2 == CHOOSE i \in dots : \A j \in dots : j <= i
    IN  /\ Cardinality(dots) \in {1, 2}
        /\ AllDigits(SubSeq(s, 1, d1 - 1))
        /\ AllDigits(SubSeq(s, d2 + 1, Len(s)))
        /\ Cardinality(dots) = 2 => AllDigits(SubSeq(s, d1 + 1, d2 - 1))

(* The urls of an entry of the sources. *)
EntryUrls(entry) ==
    IF entry.t # "dict" \/ "url" \notin DOMAIN entry.v THEN {}
    ELSE IF entry.v["url"].t = "str" THEN {entry.v["url"].v}
    ELSE IF entry.v["url"].t = "list"
    THEN {entry.v["url"].v[i].v : i \in 1..Len(entry.v["url"].v)}
    ELSE {}

OldUrls == UNION {EntryUrls(OldSources[version]) : version \in DOMAIN OldSources}

OldHostnames == {urlparse(url).hostname : url \in OldUrls}

OldSchemes == {urlparse(url).scheme : url \in OldUrls}

(* An entry of the versions with the one field folder. *)
FolderOnly(entry) == entry.t = "dict" /\ DOMAIN entry.v = {"folder"}

(* An entry of the sources with the two fields url and sha256, one checksum. *)
UrlSha256Only(entry) ==
    /\ entry.t = "dict"
    /\ DOMAIN entry.v = {"url", "sha256"}
    /\ entry.v["sha256"].t = "str"

(* Nothing but the collection differs, and in it nothing but the new key. *)
OnlyAdds(oldYml, newYml, name, version) ==
    /\ ChangedKeys(oldYml, newYml) = {name}
    /\ ChangedKeys(Collection(oldYml, name), Collection(newYml, name)) = {version}
    /\ version \notin DOMAIN Collection(oldYml, name)
    /\ version \in DOMAIN Collection(newYml, name)

(* os.path.dirname *)
dirname(p) == SubSeq(p, 1, Len(p) - Len(basename(p)) - 1)

(* The changed files are config.yml and, in its folder or below, conandata.yml. *)
ChangedPair ==
    /\ Cardinality(changed) = 2
    /\ \E c, d \in changed :
          /\ basename(c) = CONFIG_YML
          /\ basename(d) = CONANDATA_YML
          /\ IsPrefix(dirname(c) \o SEP, d)

(* The case of C1: one well-formed version is added to both files, nothing else. *)
OneVersionAdded(version) ==
    /\ ChangedPair
    /\ DOMAIN OldVersions = DOMAIN OldSources
    /\ OnlyAdds(config.old, config.new, "versions", version)
    /\ OnlyAdds(conandata.old, conandata.new, "sources", version)
    /\ FolderOnly(NewVersions[version])
    /\ UrlSha256Only(NewSources[version])
    /\ MajorMinorPatch(version)
    /\ \A url \in EntryUrls(NewSources[version]) :
          /\ urlparse(url).hostname \in OldHostnames
          /\ urlparse(url).scheme \in OldSchemes

(* C1: when one well-formed version is added to both files and nothing else
   changes, the run returns the list of that one version. *)
C1_OneVersionReturned ==
    Returned => \A version \in DOMAIN NewVersions :
                    OneVersionAdded(version) => result = <<version>>

(* The same with the files laid out as in the tests: config.yml and all/conandata.yml. *)
C1_InTestLayout ==
    Returned /\ changed = {ConfigPath, ConandataPath} =>
        \A version \in DOMAIN NewVersions :
            OneVersionAdded(version) => result = <<version>>

C1_Witness ==
    /\ Returned
    /\ changed = {ConfigPath, ConandataPath}
    /\ OneVersionAdded("0.2")
    /\ result = <<"0.2">>


(* C2: a Removed or a Modified entry, at any depth of the change tree of either
   file, makes the run return the empty list. *)
C2_RemovedOrModifiedRejected ==
    Returned /\ ( \/ HasRemovedOrModified(config.old, config.new)
                  \/ HasRemovedOrModified(conandata.old, conandata.new) )
        => result = <<>>

(* The added version keys that are not major.minor or major.minor.patch. *)
NotMajorMinorPatch == {version \in AddedKeys(OldVersions, NewVersions) : ~MajorMinorPatch(version)}

(* Every gate but the one on the syntax of the versions passes on the snapshots:
   the files are the pair, config.yml only gains versions with the one field folder. *)
OnlySyntaxAtFault ==
    /\ ChangedPair
    /\ ChangedKeys(config.old, config.new) = {"versions"}
    /\ \A version \in ChangedKeys(OldVersions, NewVersions) :
          /\ version \notin DOMAIN OldVersions
          /\ FolderOnly(NewVersions[version])
    /\ NotMajorMinorPatch # {}

(* C3: an added version key that is not major.minor or major.minor.patch makes the
   run return the empty list, and when every other gate passes the run warns once,
   naming such a key; no other form of key is accepted. *)
C3_OnlyMajorMinorPatchAccepted ==
    Returned =>
        /\ NotMajorMinorPatch # {} => result = <<>>
        /\ OnlySyntaxAtFault =>
              /\ Len(warnings) = 1
              /\ warnings[1] \in NotMajorMinorPatch
        /\ \A i \in 1..Len(result) : MajorMinorPatch(result[i])

(* C4: a third changed file, wherever it lies, makes the run return the empty list. *)
C4_ThirdFileRejected ==
    Returned /\ Cardinality(changed) >= 3 => result = <<>>

(* C5: when the two files do not list the same versions at the new revision, the
   run returns the empty list. *)
C5_SameVersionsOrEmpty ==
    Returned /\ DOMAIN NewVersions # DOMAIN NewSources => result = <<>>

C5_Witness ==
    /\ Returned
    /\ DOMAIN NewVersions # DOMAIN NewSources
    /\ added_versions # <<>>
    /\ Len(reads) = 4
    /\ result = <<>>

(* An added entry of the sources has a url whose hostname, or whose scheme, is
   that of no url of the old sources. *)
UnknownUrlAdded ==
    \E version \in AddedKeys(OldSources, NewSources) :
        \E url \in EntryUrls(NewSources[version]) :
            \/ urlparse(url).hostname \notin OldHostnames
            \/ urlparse(url).scheme \notin OldSchemes

(* C6: a url of an added entry of the sources whose hostname or scheme is not among
   those of the urls of the old sources makes the run return the empty list. *)
C6_UnknownUrlRejected ==
    Returned /\ UnknownUrlAdded => result = <<>>

(* The run went as far as comparing the urls of an entry, and refused them. *)
C6_Witness ==
    /\ Returned
    /\ UnknownUrlAdded
    /\ Len(reads) >= 7
    /\ pending # <<>>
    /\ result = <<>>

(* The patches of conandata.yml gain entries and lose or alter none. *)
PatchesGain ==
    LET old == Collection(conandata.old, "patches")
        new == Collection(conandata.new, "patches")
    IN  /\ AddedKeys(old, new) # {}
        /\ ~HasRemovedOrModified(old, new)

(* One well-formed version is added to both files; conandata.yml also gains patches. *)
OneVersionAndPatchesAdded(version) ==
    /\ changed = {ConfigPath, ConandataPath}
    /\ DOMAIN OldVersions = DOMAIN OldSources
    /\ OnlyAdds(config.old, config.new, "versions", version)
    /\ ChangedKeys(conandata.old, conandata.new) = {"sources", "patches"}
    /\ ChangedKeys(OldSources, NewSources) = {version}
    /\ version \notin DOMAIN OldSources
    /\ PatchesGain
    /\ FolderOnly(NewVersions[version])
    /\ UrlSha256Only(NewSources[version])
    /\ MajorMinorPatch(version)
    /\ \A url \in EntryUrls(NewSources[version]) :
          /\ urlparse(url).hostname \in OldHostnames
          /\ urlparse(url).scheme \in OldSchemes

(* An added entry of the sources whose fields are not url and sha256. *)
WrongFieldsAdded ==
    \E version \in AddedKeys(OldSources, NewSources) :
        NewSources[version].t # "dict" \/ DOMAIN NewSources[version].v # {"url", "sha256"}

(* C7 as claimed: patches added along with a well-formed version do not block the
   result; a sources entry with a wrong set of fields still empties it. *)
C7_PatchesDoNotBlock ==
    Returned =>
        /\ \A version \in DOMAIN NewVersions :
              OneVersionAndPatchesAdded(version) => result = <<version>>
        /\ WrongFieldsAdded => result = <<>>

(* C7 as amended: a change of the patches of conandata.yml, along with a well-formed
   version or not, makes the run return the empty list; so does an added sources
   entry with a wrong set of fields. *)
C7_PatchesChangeRejected ==
    Returned =>
        /\ "patches" \in ChangedKeys(conandata.old, conandata.new) => result = <<>>
        /\ WrongFieldsAdded => result = <<>>

(* The run compared the two conandata.yml and returned for the patches. *)
C7_Witness ==
    /\ Returned
    /\ OneVersionAndPatchesAdded("0.1.1")
    /\ DOMAIN conandata_compare_result = {"sources", "patches"}
    /\ Len(reads) = 6
    /\ result = <<>>

(* A changed entry of the sources that is not an addition of url and one sha256. *)
ImpureSourceChange ==
    \E version \in ChangedKeys(OldSources, NewSources) :
        \/ version \in DOMAIN OldSources
        \/ ~UrlSha256Only(NewSources[version])

(* C8: a changed entry of the sources that is not a pure addition with exactly the
   fields url and sha256, sha256 one string, makes the run return the empty list. *)
C8_ImpureSourceRejected ==
    Returned /\ ImpureSourceChange => result = <<>>

(* The loop over the sources refused its first entry before reading the old urls. *)
C8_Witness ==
    /\ Returned
    /\ ImpureSourceChange
    /\ pending # <<>>
    /\ Len(reads) = 6
    /\ result = <<>>

(* A changed entry of the versions that is not an addition of the one field folder. *)
ImpureVersionChange ==
    \E version \in ChangedKeys(OldVersions, NewVersions) :
        \/ version \in DOMAIN OldVersions
        \/ ~FolderOnly(NewVersions[version])

(* C9: a changed entry of the versions that is not a pure addition of exactly the
   field folder makes the run return the empty list. *)
C9_ImpureVersionRejected ==
    Returned /\ ImpureVersionChange => result = <<>>

(* C10: when the change tree of config.yml has not versions as its only root key,
   or that of conandata.yml has not sources as its only root key (an empty change
   tree included), the run returns the empty list. *)
C10_OtherRootKeyRejected ==
    Returned /\ ( \/ ChangedKeys(config.old, config.new) # {"versions"}
                  \/ ChangedKeys(conandata.old, conandata.new) # {"sources"} )
        => result = <<>>

(* The run compared the two config.yml and returned for the other root key. *)
C10_Witness ==
    /\ Returned
    /\ ChangedKeys(config.old, config.new) = {"versions", "extra"}
    /\ DOMAIN config_compare_result = {"versions", "extra"}
    /\ Len(reads) = 2
    /\ result = <<>>


(* C11: unless the changed files are exactly config.yml and a conandata.yml of the
   same recipe folder (beside it or below it), the run returns the empty list; a
   folder whose name merely begins with the name of the other is another folder. *)
C11_ScopeOrEmpty ==
    Returned /\ ~ChangedPair => result = <<>>


(* The place of a version in the listing of config.yml. *)
Listed(version) == CHOOSE i \in 1..Len(VersionsListed) : VersionsListed[i] = version

(* C12: the returned versions come in the order in which the new config.yml lists
   them, so the returned sequence is a function of the two snapshots. *)
C12_FirstSeenOrder ==
    Returned => \A i, j \in 1..Len(result) : i < j => Listed(result[i]) < Listed(result[j])


(* The versions of the returned list. *)
Versions(list) == {list[i] : i \in 1..Len(list)}

(* C13: a run returns the empty list or every changed key of the versions of
   config.yml, each once; never some of them. *)
C13_AllOrNothing ==
    Returned =>
        \/ result = <<>>
        \/ /\ Versions(result) = ChangedKeys(OldVersions, NewVersions)
           /\ Len(result) = Cardinality(ChangedKeys(OldVersions, NewVersions))

(* Two versions are added; the loop over the sources took the well-formed entry
   first, read the old urls for it, then refused the other: nothing is returned. *)
C13_Witness ==
    /\ Returned
    /\ AddedKeys(OldVersions, NewVersions) = {"0.1.1", "0.2"}
    /\ AddedKeys(OldSources, NewSources) = {"0.1.1", "0.2"}
    /\ UrlSha256Only(NewSources["0.1.1"])
    /\ ~UrlSha256Only(NewSources["0.2"])
    /\ pending = <<"0.2">>
    /\ Len(reads) = 7
    /\ result = <<>>


Raised == pc = "raised"

(* C14 as claimed, for the contents: whenever the content of config.yml or of
   conandata.yml at either revision is no YAML, the run raises and returns nothing. *)
C14_MalformedRaises ==
    Returned => \A f \in faults : f[1] # "load"

(* C14 as amended: a run that returns has met no failure in the steps it took (the
   two rev-parse, the listings it asked for, every content it fetched, which it
   also parsed); and without any failure, no run raises. *)
C14_FailureMetRaises ==
    /\ Returned =>
          /\ \A f \in faults : f[1] # "rev-parse" /\ f # Step("diff", "relative", <<>>)
          /\ Step("diff", "full", <<>>) \in faults => reads = <<>> /\ result = <<>>
          /\ \A i \in 1..Len(reads) : \A kind \in {"show", "load"} :
                Step(kind, reads[i][1], reads[i][2]) \notin faults
    /\ Raised => faults # {} /\ result = <<>>

(* conandata.yml at the new revision is no YAML: the run raised when it came to
   read it, after config.yml had passed its gates. *)
C14_Witness ==
    /\ Raised
    /\ faults = {Step("load", "new", ConandataPath)}
    /\ added_versions = <<"0.1.1">>
    /\ Len(reads) = 4
    /\ reads[4] = <<"new", ConandataPath>>


(* The run came to the loop over the sources with nothing but well-formed
   additions to visit: every earlier gate has passed. *)
OnlyUrlsToJudge ==
    /\ Returned
    /\ Len(reads) >= 6
    /\ ChangedKeys(conandata.old, conandata.new) = {"sources"}
    /\ \A version \in ChangedKeys(OldSources, NewSources) :
          /\ version \notin DOMAIN OldSources
          /\ UrlSha256Only(NewSources[version])

(* Each url of each added entry has a hostname of the old urls and a scheme of the
   old urls, the two taken apart. *)
HostsAndSchemesKnown ==
    \A version \in AddedKeys(OldSources, NewSources) :
        \A url \in EntryUrls(NewSources[version]) :
            /\ urlparse(url).hostname \in OldHostnames
            /\ urlparse(url).scheme \in OldSchemes

(* C15: the gate on the urls lets the run through exactly when every url of every
   added entry has its hostname among the old hostnames and its scheme among the
   old schemes, whether or not one old url has both. *)
C15_HostAndSchemeApart ==
    OnlyUrlsToJudge => (result # <<>> <=> HostsAndSchemesKnown)

(* The old urls are http://foobar.com and https://mirror.com; the added entry is at
   https://foobar.com, a pair no old url has, and its version is returned. *)
C15_Witness ==
    /\ OnlyUrlsToJudge
    /\ {urlparse(url) : url \in OldUrls} =
          { [scheme |-> "http", hostname |-> "foobar.com"],
            [scheme |-> "https", hostname |-> "mirror.com"] }
    /\ AddedKeys(OldSources, NewSources) = {"0.1.1"}
    /\ {urlparse(url) : url \in EntryUrls(NewSources["0.1.1"])} =
          { [scheme |-> "https", hostname |-> "foobar.com"] }
    /\ result = <<"0.1.1">>


Diffed == pc = "diffed"

(* Deep equality as the specification has it: scalars of the same kind and value,
   lists element by element in order, mappings key by key. *)
RECURSIVE DeepEqual(_, _)
DeepEqual(a, b) ==
    IF a.t # b.t THEN FALSE
    ELSE IF a.t = "list"
         THEN /\ Len(a.v) = Len(b.v)
              /\ \A i \in 1..Len(a.v) : DeepEqual(a.v[i], b.v[i])
    ELSE IF a.t = "dict"
         THEN /\ DOMAIN a.v = DOMAIN b.v
              /\ \A key \in DOMAIN a.v : DeepEqual(a.v[key], b.v[key])
    ELSE a.v = b.v

(* The entry is the marker with this one name, holding this value. *)
Marks(entry, name, value) ==
    /\ entry.t = "dict"
    /\ DOMAIN entry.v = {name}
    /\ DeepEqual(entry.v[name], value)

(* The change tree has, key by key, what the specification prescribes. *)
RECURSIVE Prescribed(_, _, _)
Prescribed(old, new, differences) ==
    /\ DOMAIN differences \subseteq DOMAIN old \cup DOMAIN new
    /\ \A key \in DOMAIN old \cup DOMAIN new :
          IF key \notin DOMAIN old
          THEN key \in DOMAIN differences /\ Marks(differences[key], "added", new[key])
          ELSE IF key \notin DOMAIN new
          THEN key \in DOMAIN differences /\ Marks(differences[key], "removed", old[key])
          ELSE IF DeepEqual(old[key], new[key])
          THEN key \notin DOMAIN differences
          ELSE IF old[key].t = "dict" /\ new[key].t = "dict"
          THEN /\ key \in DOMAIN differences
               /\ differences[key].t = "dict"
               /\ Prescribed(old[key].v, new[key].v, differences[key].v)
          ELSE /\ key \in DOMAIN differences
               /\ Marks(differences[key], "modified", Map("old" :> old[key] @@ "new" :> new[key]))

(* C16: for each key of either mapping, recursive_yaml_diff has Added, Removed,
   nothing when the values are deep-equal, the sub-diff of two differing mappings,
   Modified otherwise; and no other key. *)
C16_DiffAsPrescribed ==
    Diffed => Prescribed(config.old, config.new, config_compare_result)

(* C17: a key that holds, at both revisions, values that are not both mappings and
   are not deep-equal (scalars of two kinds, a number and its string, the same
   elements in two orders) has a Modified entry in the diff. *)
C17_NoCoercion ==
    Diffed =>
        \A key \in DOMAIN config.old \cap DOMAIN config.new :
            LET old == config.old[key]
                new == config.new[key]
            IN  ~(old.t = "dict" /\ new.t = "dict") /\ ~DeepEqual(old, new) =>
                    /\ key \in DOMAIN config_compare_result
                    /\ DOMAIN config_compare_result[key].v = {"modified"}


(* C18: every returned version is a key the old config.yml does not list and the
   new one does. *)
C18_ReturnedAreAdded ==
    Returned => Versions(result) \subseteq AddedKeys(OldVersions, NewVersions)

(* C19: every returned version has an entry of the sources that the old
   conandata.yml does not have, well formed, with urls of known hostname and scheme. *)
C19_ReturnedHaveNewSources ==
    Returned =>
        \A version \in Versions(result) :
            /\ version \in AddedKeys(OldSources, NewSources)
            /\ UrlSha256Only(NewSources[version])
            /\ \A url \in EntryUrls(NewSources[version]) :
                  /\ urlparse(url).hostname \in OldHostnames
                  /\ urlparse(url).scheme \in OldSchemes


(* The verdicts of the gates on what the run is given, each as the code computes it. *)
ScopePassed ==
    LET relative == git_diff_filenames(changed, workdir, TRUE)
        full == git_diff_filenames(changed, workdir, FALSE)
    IN  /\ Cardinality(relative) = 2
        /\ isdir(common_prefix(relative))
        /\ Cardinality({it \in full : basename(it) = CONFIG_YML}) = 1
        /\ Cardinality({it \in full : basename(it) = CONANDATA_YML}) = 1

VersionsDiff == recursive_yaml_diff(config.old, config.new)

SourcesDiff == recursive_yaml_diff(conandata.old, conandata.new)

VersionsPassed ==
    /\ OnlyVersionsChanged(VersionsDiff)
    /\ \A key \in DOMAIN VersionsDiff["versions"].v :
          /\ ~VersionRefused(VersionsDiff["versions"].v[key])
          /\ semver_pattern_match(key)

KeysPassed ==
    SameVersions(VersionsOf(config.new, "versions"), VersionsOf(conandata.new, "sources"))

SourcePassed(key) ==
    /\ ~SourceRefused(SourcesDiff["sources"].v[key])
    /\ ~UrlsRefused(SourcesDiff["sources"].v[key], get_conandata_yml_urls(conandata.old))

(* The calls of get_file_content_by_commit on conandata.yml. *)
SourcesReads == {i \in 1..Len(reads) : basename(reads[i][2]) = CONANDATA_YML}

(* What holds of the reads and of the warnings at every moment of a run. *)
ReadsAndWarningsInOrder ==
    /\ reads # <<>> => ScopePassed
    /\ SourcesReads # {} => VersionsPassed /\ \A i \in SourcesReads : i >= 4
    /\ Len(reads) >= 5 => KeysPassed
    /\ Len(reads) >= 7 =>
          /\ OnlySourcesChanged(SourcesDiff)
          /\ \E key \in DOMAIN SourcesDiff["sources"].v :
                ~SourceRefused(SourcesDiff["sources"].v[key])
    /\ Len(warnings) <= 1
    /\ warnings # <<>> =>
          /\ result = <<>>
          /\ SourcesReads = {}
          /\ ~semver_pattern_match(warnings[1])
    /\ result # <<>> =>
          /\ Returned
          /\ ScopePassed /\ VersionsPassed /\ KeysPassed
          /\ OnlySourcesChanged(SourcesDiff)
          /\ \A key \in DOMAIN SourcesDiff["sources"].v : SourcePassed(key)

(* A run that has ended takes no further step; reads and warnings only grow. *)
EndsAtFirstRejection ==
    /\ pc \notin {"returned", "raised"}
    /\ IsPrefix(reads, reads')
    /\ IsPrefix(warnings, warnings')

(* C20 as claimed: the gates run in the order scope, versions shape, purity and
   syntax, keys of the two files, sources shape, sources purity, urls; the urls of
   no entry are judged (the old conandata.yml read for them) before every changed
   entry of the sources has passed the purity gate. *)
C20_PurityBeforeUrls ==
    /\ ReadsAndWarningsInOrder
    /\ Len(reads) >= 7 =>
          \A key \in DOMAIN SourcesDiff["sources"].v :
              ~SourceRefused(SourcesDiff["sources"].v[key])

(* C20 as amended: the gates run in the order scope, versions shape, purity and
   syntax, keys of the two files, sources shape, then for each changed entry of the
   sources its purity and its urls; the first rejection ends the run; no file is
   read unless the scope gate passed, conandata.yml is not read before config.yml
   passed its three gates, and the warning comes at most once, in a run that
   returns the empty list. *)
C20_GatesInOrder ==
    [] ReadsAndWarningsInOrder /\ [][EndsAtFirstRejection]_vars

(* A version that is not major.minor(.patch) was added: one warning, the empty
   list, and conandata.yml never read. *)
C20_Witness ==
    /\ Returned
    /\ warnings = <<"0.1.1-rc">>
    /\ Len(reads) = 2
    /\ result = <<>>


(* The changed files are config.yml and conandata.yml of one directory, both seen
   from the working directory. *)
SameDirectoryPair ==
    /\ Cardinality(changed) = 2
    /\ Cardinality(git_diff_filenames(changed, workdir, TRUE)) = 2
    /\ \E c, d \in changed :
          /\ basename(c) = CONFIG_YML
          /\ basename(d) = CONANDATA_YML
          /\ dirname(c) = dirname(d)
          /\ isdir(abspath(<<>>, dirname(c)))

(* C21: the scope gate judges the directories of the two changed files, not the
   characters of their names: with config.yml and conandata.yml changed in one
   existing directory the gate passes, as it does with conandata.yml a directory
   below, and the run goes on to compare config.yml. *)
C21_SameDirectoryPasses ==
    Returned /\ SameDirectoryPair => reads # <<>>

====
